---------------------------- MODULE Spec2Model ----------------------------
(***************************************************************************)
(* Model of the Zotero -> BibTeX fetcher (action entry point `run` and the  *)
(* stand-alone script).  Two parts:                                         *)
(*   - the text layer: JavaScript strings are sequences of one-character    *)
(*     strings, and every regular expression of the source is an operator   *)
(*     that scans such a sequence the way the regex engine does;            *)
(*   - the run: a state machine with one action per resumption of `run`     *)
(*     (each `await` of a request or of a file system call).                *)
(***************************************************************************)
EXTENDS Integers, Sequences, FiniteSets, TLC

(***************************************************************************)
(* Characters and character classes                                         *)
(***************************************************************************)
UpperSeq == <<"A", "B", "C", "D", "E", "F", "G", "H", "I", "J", "K", "L", "M",
              "N", "O", "P", "Q", "R", "S", "T", "U", "V", "W", "X", "Y", "Z">>
LowerSeq == <<"a", "b", "c", "d", "e", "f", "g", "h", "i", "j", "k", "l", "m",
              "n", "o", "p", "q", "r", "s", "t", "u", "v", "w", "x", "y", "z">>
DigitSeq == <<"0", "1", "2", "3", "4", "5", "6", "7", "8", "9">>

Range(s) == {s[i] : i \in DOMAIN s}

\* [A-Z]
IsUpper(c) == c \in Range(UpperSeq)
IsLower(c) == c \in Range(LowerSeq)
IsDigit(c) == c \in Range(DigitSeq)
\* \w
IsWordChar(c) == IsUpper(c) \/ IsLower(c) \/ IsDigit(c) \/ c = "_"
\* \s (the ASCII members of the class)
IsSpace(c) == c \in {" ", "\t", "\n", "\r", "\f"}
\* what ^ and $ treat as a line break under the m flag
IsLineTerminator(c) == c \in {"\n", "\r"}

\* canonicalisation of the i flag
ToLower(c) ==
    IF IsUpper(c) THEN LowerSeq[CHOOSE i \in DOMAIN UpperSeq : UpperSeq[i] = c]
    ELSE c

Min(S) == CHOOSE x \in S : \A y \in S : x <= y
Max(S) == CHOOSE x \in S : \A y \in S : x >= y

\* the text from position i to the end
From(t, i) == SubSeq(t, i, Len(t))

\* a literal of the pattern (given in lower case) matches at i, ignoring case
LiteralAtCI(t, i, lit) ==
    /\ i >= 1
    /\ i + Len(lit) - 1 <= Len(t)
    /\ \A k \in 1..Len(lit) : ToLower(t[i + k - 1]) = lit[k]

\* greedy \s* from i: the first position that holds no white space
SkipSpace(t, i) ==
    CHOOSE j \in i..(Len(t) + 1) :
        /\ j = Len(t) + 1 \/ ~IsSpace(t[j])
        /\ \A k \in i..(j - 1) : IsSpace(t[k])

\* greedy \w* from i
SkipWord(t, i) ==
    CHOOSE j \in i..(Len(t) + 1) :
        /\ j = Len(t) + 1 \/ ~IsWordChar(t[j])
        /\ \A k \in i..(j - 1) : IsWordChar(t[k])

\* greedy [A-Z]* from i
SkipUpper(t, i) ==
    CHOOSE j \in i..(Len(t) + 1) :
        /\ j = Len(t) + 1 \/ ~IsUpper(t[j])
        /\ \A k \in i..(j - 1) : IsUpper(t[k])

\* first position >= i holding a character of set C, 0 when there is none
IndexOfAny(t, C, i) ==
    LET hits == {j \in i..Len(t) : t[j] \in C}
    IN  IF hits = {} THEN 0 ELSE Min(hits)

\* String.prototype.trim
Trim(s) ==
    LET keep == {i \in 1..Len(s) : ~IsSpace(s[i])}
    IN  IF keep = {} THEN <<>> ELSE SubSeq(s, Min(keep), Max(keep))

\* String.prototype.endsWith("\n")
EndsWithNewline(s) == Len(s) > 0 /\ s[Len(s)] = "\n"

(***************************************************************************)
(* parseInt(x, 10) and `${n}`                                               *)
(***************************************************************************)
DigitValue(c) == (CHOOSE i \in DOMAIN DigitSeq : DigitSeq[i] = c) - 1

RECURSIVE NatToStr(_)
NatToStr(n) ==
    IF n < 10 THEN <<DigitSeq[n + 1]>>
    ELSE NatToStr(n \div 10) \o <<DigitSeq[(n % 10) + 1]>>

RECURSIVE DigitsValue(_)
DigitsValue(ds) ==
    IF ds = <<>> THEN 0
    ELSE 10 * DigitsValue(SubSeq(ds, 1, Len(ds) - 1)) + DigitValue(ds[Len(ds)])

\* a JavaScript number read from text: NaN, or an integer
NaN == [nan |-> TRUE, val |-> 0]
Num(n) == [nan |-> FALSE, val |-> n]

\* parseInt(s, 10) of an unsigned text: leading white space is skipped, the
\* longest run of digits is read, anything after it is ignored; no digit: NaN
ParseInt(s) ==
    LET a == SkipSpace(s, 1)
        b == CHOOSE j \in a..(Len(s) + 1) :
                 /\ j = Len(s) + 1 \/ ~IsDigit(s[j])
                 /\ \A k \in a..(j - 1) : IsDigit(s[k])
    IN  IF b = a THEN NaN ELSE Num(DigitsValue(SubSeq(s, a, b - 1)))

\* n >= y for an integer n and a parsed number y: false when y is NaN
NumGeq(n, y) == ~y.nan /\ n >= y.val

(***************************************************************************)
(* normalizeItems: the body of a page response is an array, an object that  *)
(* wraps one in `items`, or anything else.                                  *)
(***************************************************************************)
normalizeItems(json) ==
    IF json.kind = "array" THEN json.items
    ELSE IF json.kind = "wrapped" THEN json.items
    ELSE <<>>

(***************************************************************************)
(* pinnedFromNote: /^\s*Citation Key:\s*([^\s#]+)\s*$/mi                    *)
(***************************************************************************)
citationKeyLabel == <<"c", "i", "t", "a", "t", "i", "o", "n", " ", "k", "e", "y", ":">>

AtLineStart(t, i) == i = 1 \/ (i - 1 <= Len(t) /\ IsLineTerminator(t[i - 1]))
AtLineEnd(t, i) == i = Len(t) + 1 \/ (i <= Len(t) /\ IsLineTerminator(t[i]))

\* greedy [^\s#]* from i
SkipToken(t, i) ==
    CHOOSE j \in i..(Len(t) + 1) :
        /\ j = Len(t) + 1 \/ IsSpace(t[j]) \/ t[j] = "#"
        /\ \A k \in i..(j - 1) : ~IsSpace(t[k]) /\ t[k] # "#"

\* the pattern matches with ^ at i: white space, the label, white space, a
\* token, and then white space up to some end of line ($ may hold anywhere in
\* the trailing white space, the engine backtracks \s* to find it)
PinMatchAt(t, i) ==
    /\ AtLineStart(t, i)
    /\ LET a == SkipSpace(t, i)
           b == SkipSpace(t, a + Len(citationKeyLabel))
           c == SkipToken(t, b)
           d == SkipSpace(t, c)
       IN  /\ LiteralAtCI(t, a, citationKeyLabel)
           /\ c > b
           /\ \E e \in c..d : AtLineEnd(t, e)

PinToken(t, i) ==
    LET a == SkipSpace(t, i)
        b == SkipSpace(t, a + Len(citationKeyLabel))
    IN  SubSeq(t, b, SkipToken(t, b) - 1)

\* a note is [present |-> BOOLEAN, text |-> characters]; the result is
\* [found |-> BOOLEAN, key |-> characters] for m ? m[1] : null
pinnedFromNote(note) ==
    IF ~note.present \/ note.text = <<>> THEN [found |-> FALSE, key |-> <<>>]
    ELSE LET hits == {i \in 1..(Len(note.text) + 1) : PinMatchAt(note.text, i)}
         IN  IF hits = {} THEN [found |-> FALSE, key |-> <<>>]
             ELSE [found |-> TRUE, key |-> PinToken(note.text, Min(hits))]

(***************************************************************************)
(* typeMap                                                                  *)
(***************************************************************************)
typeMap ==
       (<<"a", "r", "t", "i", "c", "l", "e", "-", "j", "o", "u", "r", "n", "a", "l">> :> <<"a", "r", "t", "i", "c", "l", "e">>)
    @@ (<<"a", "r", "t", "i", "c", "l", "e">> :> <<"a", "r", "t", "i", "c", "l", "e">>)
    @@ (<<"b", "o", "o", "k">> :> <<"b", "o", "o", "k">>)
    @@ (<<"c", "h", "a", "p", "t", "e", "r">> :> <<"i", "n", "c", "o", "l", "l", "e", "c", "t", "i", "o", "n">>)
    @@ (<<"p", "a", "p", "e", "r", "-", "c", "o", "n", "f", "e", "r", "e", "n", "c", "e">> :> <<"i", "n", "p", "r", "o", "c", "e", "e", "d", "i", "n", "g", "s">>)
    @@ (<<"t", "h", "e", "s", "i", "s">> :> <<"t", "h", "e", "s", "i", "s">>)
    @@ (<<"r", "e", "p", "o", "r", "t">> :> <<"r", "e", "p", "o", "r", "t">>)
    @@ (<<"w", "e", "b", "p", "a", "g", "e">> :> <<"o", "n", "l", "i", "n", "e">>)
    @@ (<<"p", "o", "s", "t">> :> <<"o", "n", "l", "i", "n", "e">>)
    @@ (<<"p", "o", "s", "t", "-", "w", "e", "b", "l", "o", "g">> :> <<"o", "n", "l", "i", "n", "e">>)
    @@ (<<"d", "a", "t", "a", "s", "e", "t">> :> <<"d", "a", "t", "a", "s", "e", "t">>)
    @@ (<<"m", "a", "n", "u", "s", "c", "r", "i", "p", "t">> :> <<"u", "n", "p", "u", "b", "l", "i", "s", "h", "e", "d">>)

(***************************************************************************)
(* Key and type rewrite: bib.replace(/@(\w+)\{([^,]+),/g, ...)              *)
(***************************************************************************)
\* the pattern matches at i: "@", a maximal run of word characters, "{", one
\* or more characters that are no comma, and the first comma
HeaderOk(t, i) ==
    /\ i <= Len(t)
    /\ t[i] = "@"
    /\ LET w == SkipWord(t, i + 1)
       IN  /\ w > i + 1
           /\ w <= Len(t)
           /\ t[w] = "{"
           /\ IndexOfAny(t, {","}, w + 1) > w + 1

HeaderType(t, i) == SubSeq(t, i + 1, SkipWord(t, i + 1) - 1)
HeaderComma(t, i) == IndexOfAny(t, {","}, SkipWord(t, i + 1) + 1)
HeaderKey(t, i) == SubSeq(t, SkipWord(t, i + 1) + 1, HeaderComma(t, i) - 1)

\* faulty variant of the key lookup: the pinned value is looked up again
NewKey_Chained(pm, k) ==
    IF k \in DOMAIN pm /\ pm[k] # <<>>
    THEN (IF pm[k] \in DOMAIN pm /\ pm[pm[k]] # <<>> THEN pm[pm[k]] ELSE pm[k])
    ELSE k

\* pinnedMap.get(k) || k
NewKey(pm, k) == IF k \in DOMAIN pm /\ pm[k] # <<>> THEN pm[k] ELSE k

\* typeMap[typeHints.get(k) || ""] || type.  typeMap is an object literal; the
\* hints are CSL types, none of which names a member of Object.prototype, so
\* the lookup is a lookup among the twelve entries.
Mapped(th, k, type) ==
    LET hint == IF k \in DOMAIN th /\ th[k] # <<>> THEN th[k] ELSE <<>>
    IN  IF hint \in DOMAIN typeMap /\ typeMap[hint] # <<>> THEN typeMap[hint]
        ELSE type

\* `@${mapped}{${newKey},`
HeaderReplacement(pm, th, type, k) ==
    <<"@">> \o Mapped(th, k, type) \o <<"{">> \o NewKey(pm, k) \o <<",">>

RECURSIVE RewriteHeadersFrom(_, _, _, _)
RewriteHeadersFrom(t, p, pm, th) ==
    LET hits == {i \in p..Len(t) : HeaderOk(t, i)}
    IN  IF hits = {} THEN From(t, p)
        ELSE LET i == Min(hits)
             IN  SubSeq(t, p, i - 1)
                 \o HeaderReplacement(pm, th, HeaderType(t, i), HeaderKey(t, i))
                 \o RewriteHeadersFrom(t, HeaderComma(t, i) + 1, pm, th)

RewriteKeysAndTypes(bib, pm, th) == RewriteHeadersFrom(bib, 1, pm, th)

(***************************************************************************)
(* Field patterns: new RegExp(`(${field}\\s*=\\s*\\{)([^}]+)(\\})`, "gi")   *)
(***************************************************************************)
\* position of the "{" that ends group 1, for a match that starts at i
FieldBrace(t, i, field) ==
    SkipSpace(t, SkipSpace(t, i + Len(field)) + 1)

\* position of the "}" of group 3
FieldClose(t, i, field) == IndexOfAny(t, {"}"}, FieldBrace(t, i, field) + 1)

\* the pattern matches at i.  Nothing anchors the name on its left: the match
\* may start inside a longer word.
FieldOk(t, i, field) ==
    /\ LiteralAtCI(t, i, field)
    /\ LET a == SkipSpace(t, i + Len(field))
       IN  /\ a <= Len(t)
           /\ t[a] = "="
           /\ LET b == SkipSpace(t, a + 1)
              IN  /\ b <= Len(t)
                  /\ t[b] = "{"
                  /\ IndexOfAny(t, {"}"}, b + 1) > b + 1

FieldPre(t, i, field) == SubSeq(t, i, FieldBrace(t, i, field))
FieldContent(t, i, field) ==
    SubSeq(t, FieldBrace(t, i, field) + 1, FieldClose(t, i, field) - 1)

NextField(t, p, field) ==
    LET hits == {i \in p..Len(t) : FieldOk(t, i, field)}
    IN  IF hits = {} THEN 0 ELSE Min(hits)

(***************************************************************************)
(* journal -> organization                                                  *)
(***************************************************************************)
journalName == <<"j", "o", "u", "r", "n", "a", "l">>
organizationPre == <<"o", "r", "g", "a", "n", "i", "z", "a", "t", "i", "o", "n", " ", "=", " ", "{">>

RECURSIVE RenameJournalFrom(_, _)
RenameJournalFrom(t, p) ==
    LET i == NextField(t, p, journalName)
    IN  IF i = 0 THEN From(t, p)
        ELSE SubSeq(t, p, i - 1)
             \o organizationPre \o FieldContent(t, i, journalName) \o <<"}">>
             \o RenameJournalFrom(t, FieldClose(t, i, journalName) + 1)

RenameJournal(bib) == RenameJournalFrom(bib, 1)

(***************************************************************************)
(* protectCapitalsInFields                                                  *)
(***************************************************************************)
defaultFields == <<<<"t", "i", "t", "l", "e">>,
                   <<"b", "o", "o", "k", "t", "i", "t", "l", "e">>,
                   <<"s", "e", "r", "i", "e", "s">>,
                   <<"n", "u", "m", "b", "e", "r">>>>

\* /\b([A-Z]{2,})\b/ matches at i: a word boundary, two or more upper-case
\* letters taken greedily, a word boundary (giving letters back never helps:
\* the character that follows would be an upper-case letter)
AcronymOk(c, i) ==
    /\ i <= Len(c)
    /\ IsUpper(c[i])
    /\ i = 1 \/ ~IsWordChar(c[i - 1])
    /\ LET e == SkipUpper(c, i)
       IN  /\ e - i >= 2
           /\ e = Len(c) + 1 \/ ~IsWordChar(c[e])

\* content.replace(/\b([A-Z]{2,})\b/g, '{{$1}}')
RECURSIVE ProtectContentFrom(_, _)
ProtectContentFrom(c, p) ==
    LET hits == {i \in p..Len(c) : AcronymOk(c, i)}
    IN  IF hits = {} THEN From(c, p)
        ELSE LET i == Min(hits)
                 e == SkipUpper(c, i)
             IN  SubSeq(c, p, i - 1)
                 \o <<"{", "{">> \o SubSeq(c, i, e - 1) \o <<"}", "}">>
                 \o ProtectContentFrom(c, e)

ProtectContent(c) == ProtectContentFrom(c, 1)

\* bib.replace(regex, ...) for one field name
RECURSIVE ProtectFieldFrom(_, _, _)
ProtectFieldFrom(t, p, field) ==
    LET i == NextField(t, p, field)
    IN  IF i = 0 THEN From(t, p)
        ELSE SubSeq(t, p, i - 1)
             \o FieldPre(t, i, field)
             \o ProtectContent(FieldContent(t, i, field))
             \o <<"}">>
             \o ProtectFieldFrom(t, FieldClose(t, i, field) + 1, field)

ProtectField(t, field) == ProtectFieldFrom(t, 1, field)

\* for (const field of fields) bib = bib.replace(...)
RECURSIVE protectCapitalsInFields(_, _)
protectCapitalsInFields(bib, fields) ==
    IF fields = <<>> THEN bib
    ELSE protectCapitalsInFields(ProtectField(bib, Head(fields)), Tail(fields))

(***************************************************************************)
(* cleanTypeField                                                           *)
(***************************************************************************)
\* the pattern: /(^|\n)(\s*)type\s*=\s*\{((?:[^{}]|{[^{}]*})*)\}(\s*,?)/gmi
typeName == <<"t", "y", "p", "e">>
typePre == <<"t", "y", "p", "e", " ", "=", " ", "{">>

\* group 3 followed by "}": scanning from j, plain characters and one-level
\* {...} chunks are consumed; the result is the position of the "}" that
\* closes the field, 0 when the text ends first or a chunk nests deeper
RECURSIVE TypeContentClose(_, _)
TypeContentClose(t, j) ==
    IF j > Len(t) THEN 0
    ELSE IF t[j] = "}" THEN j
    ELSE IF t[j] # "{" THEN TypeContentClose(t, j + 1)
    ELSE LET e == IndexOfAny(t, {"{", "}"}, j + 1)
         IN  IF e = 0 \/ t[e] = "{" THEN 0 ELSE TypeContentClose(t, e + 1)

\* (\s*)type\s*=\s*\{ ... \} from position a; the "{" is at TypeBrace
TypeBrace(t, a) ==
    SkipSpace(t, SkipSpace(t, SkipSpace(t, a) + Len(typeName)) + 1)

TypeRestOk(t, a) ==
    LET b == SkipSpace(t, a)
    IN  /\ LiteralAtCI(t, b, typeName)
        /\ LET c == SkipSpace(t, b + Len(typeName))
           IN  /\ c <= Len(t)
               /\ t[c] = "="
               /\ LET d == SkipSpace(t, c + 1)
                  IN  /\ d <= Len(t)
                      /\ t[d] = "{"
                      /\ TypeContentClose(t, d + 1) # 0

\* the first alternative of (^|\n) is tried first
TypeViaCaret(t, i) == AtLineStart(t, i) /\ TypeRestOk(t, i)
TypeViaNewline(t, i) == i <= Len(t) /\ t[i] = "\n" /\ TypeRestOk(t, i + 1)
TypeOk(t, i) == TypeViaCaret(t, i) \/ TypeViaNewline(t, i)

\* where group 2 starts
TypeIndentStart(t, i) == IF TypeViaCaret(t, i) THEN i ELSE i + 1

\* content.replace(/[{}]/g, "")
StripBraces(s) == SelectSeq(s, LAMBDA c : c \notin {"{", "}"})

\* .replace(/\s+/g, " ")
RECURSIVE CollapseSpaceFrom(_, _)
CollapseSpaceFrom(s, i) ==
    IF i > Len(s) THEN <<>>
    ELSE IF IsSpace(s[i]) THEN <<" ">> \o CollapseSpaceFrom(s, SkipSpace(s, i))
    ELSE <<s[i]>> \o CollapseSpaceFrom(s, i + 1)

Cleaned(content) == Trim(CollapseSpaceFrom(StripBraces(content), 1))

RECURSIVE CleanTypeFrom(_, _)
CleanTypeFrom(t, p) ==
    LET hits == {i \in p..Len(t) : TypeOk(t, i)}
    IN  IF hits = {} THEN From(t, p)
        ELSE LET i == Min(hits)
                 a == TypeIndentStart(t, i)
                 b == SkipSpace(t, a)
                 d == TypeBrace(t, a)
                 e == TypeContentClose(t, d + 1)
                 s == SkipSpace(t, e + 1)
                 last == IF s <= Len(t) /\ t[s] = "," THEN s ELSE s - 1
             IN  SubSeq(t, p, a - 1)
                 \o SubSeq(t, a, b - 1)
                 \o typePre \o Cleaned(SubSeq(t, d + 1, e - 1)) \o <<"}">>
                 \o SubSeq(t, e + 1, last)
                 \o CleanTypeFrom(t, last + 1)

cleanTypeField(bib) == CleanTypeFrom(bib, 1)

(***************************************************************************)
(* The four passes of run, in its order                                     *)
(***************************************************************************)
Rewrite(bib, pm, th) ==
    cleanTypeField(
        protectCapitalsInFields(
            RenameJournal(RewriteKeysAndTypes(bib, pm, th)), defaultFields))

(***************************************************************************)
(* The remote service (external): its library and what it may answer        *)
(***************************************************************************)
\* largest library the service holds
MaxItems == 340
\* largest Total-Results a misreporting service sends
MaxTotal == 250

\* limit=100 of the collection request
PageLimit == 100
\* the page size the loop compares with
FullPage == 100
\* keys per bibliography request
ChunkSize == 50

Absent == [present |-> FALSE, text |-> <<>>]
Text(s) == [present |-> TRUE, text |-> s]

\* the item key the service gives its i-th item
ItemKey(i) == <<"K">> \o NatToStr(i)

\* The items of the library are numbered from 1 in server order; a page
\* carries item numbers, and Item gives the CSL entry behind a number.
\* Profiles: "keyed" (every id is "<libraryId>/<itemKey>"), "keyless" (no id
\* yields a key: the id is missing, empty, or ends in "/"), "mixed" (the even
\* items are keyless and the odd ones share DupKeys item keys, so that keys
\* repeat).  Some notes pin a key, one in eight to the key of the item before.
DupKeys == 16

Item(profile, i) ==
    [id   |-> IF profile = "keyed"
              THEN Text(<<"1", "/">> \o ItemKey(i))
              ELSE IF profile = "mixed" /\ i % 2 = 1
              THEN Text(<<"1", "/">> \o ItemKey(i % DupKeys))
              ELSE IF i % 3 = 0 THEN Absent
              ELSE IF i % 3 = 1 THEN Text(<<>>)
              ELSE Text(<<"1", "/">>),
     note |-> IF i % 4 = 0 THEN Absent
              ELSE IF i % 4 = 1 THEN Text(<<>>)
              ELSE IF i % 8 = 2
                   THEN Text(<<"C", "i", "t", "a", "t", "i", "o", "n", " ", "K", "e", "y", ":", " ">> \o <<"P">>
                             \o NatToStr(i) \o <<"\n", "O", "t", "h", "e", "r", " ", "t", "e", "x", "t">>)
              ELSE IF i % 8 = 6
                   THEN Text(<<"C", "i", "t", "a", "t", "i", "o", "n", " ", "K", "e", "y", ":", " ">> \o ItemKey(i - 1))
              ELSE Text(<<"O", "t", "h", "e", "r", " ", "t", "e", "x", "t">>),
     type |-> IF i % 3 = 0 THEN Absent
              ELSE IF i % 3 = 1 THEN Text(<<"w", "e", "b", "p", "a", "g", "e">>)
              ELSE Text(<<"s", "o", "n", "g">>)]

\* items a..b of the library, in server order
Items(a, b) == [j \in 1..(b - a + 1) |-> a + j - 1]

\* the CSL entries behind a list of item numbers
Entries(profile, nums) == [j \in DOMAIN nums |-> Item(profile, nums[j])]

\* the shapes of a page body
Body(kind, items) == [kind |-> kind, items |-> items]

\* the record the bibliography translator emits for a key
RecordText(k) ==
    <<"@", "m", "i", "s", "c", "{">> \o k \o <<",", "\n", " ", " ", "t", "i", "t", "l", "e", " ", "=", " ", "{", "A", " ", "N", "A", "S", "A", "}", ",", "\n", "}">>

\* the bodies the service may answer a bibliography request with: nothing but
\* white space, or the records of the first two requested keys (with white
\* space around them)
BibBodies(keys) ==
    {<<" ", "\n">>}
    \cup (IF keys = <<>> THEN {}
          ELSE {<<"\n">> \o RecordText(keys[1])
                \o (IF Len(keys) > 1 THEN <<"\n">> \o RecordText(keys[2]) ELSE <<>>)
                \o <<"\n", "\n">>})

(***************************************************************************)
(* run: the state                                                           *)
(***************************************************************************)
VARIABLES
    server,       \* the service: [mode, n, profile], fixed for a run
    pc,           \* where run is suspended, or how it ended
    start,        \* fetchAllParentsCSL: start
    all,          \* fetchAllParentsCSL: all (cslItems once it returned)
    total,        \* fetchAllParentsCSL: total of the last page
    pageStarts,   \* the start of every collection request issued, in order
    pageSizes,    \* the size of every page received, in order
    itemKeys,     \* run: itemKeys
    pinnedMap,    \* run: pinnedMap
    typeHints,    \* run: typeHints
    warned,       \* core.warning was called
    i,            \* the index of the batch loop
    batchReqs,    \* the keys of every bibliography request issued, in order
    bib,          \* run: bib
    outFile,      \* the output file: [written, content]
    failed,       \* "none", or what core.setFailed reported: "http", "fs"
    errorAt,      \* requests issued when a non-success status first arrived
    input,        \* the text pipeline alone: the document it was given
    passes        \* the text pipeline alone: bib after each pass

vars == <<server, pc, start, all, total, pageStarts, pageSizes, itemKeys,
          pinnedMap, typeHints, warned, i, batchReqs, bib, outFile, failed,
          errorAt, input, passes>>

EmptyMap == [k \in {} |-> <<>>]

(***************************************************************************)
(* fetchAllParentsCSL, one page                                             *)
(***************************************************************************)
\* headers.get("Total-Results") || `${page.length}`, through parseInt
TotalOf(header, page) ==
    ParseInt(IF header.present /\ header.text # <<>> THEN header.text
             ELSE NatToStr(Len(page)))

\* faulty variants of the break test: > for >=, the total ignored, && for ||
ShouldBreak_Strict(pageLen, allLen, tot) ==
    pageLen < FullPage \/ (~tot.nan /\ allLen > tot.val)

ShouldBreak_SizeOnly(pageLen, allLen, tot) == pageLen < FullPage

ShouldBreak_And(pageLen, allLen, tot) ==
    pageLen < FullPage /\ NumGeq(allLen, tot)

\* if (page.length < 100 || all.length >= total) break;
ShouldBreak(pageLen, allLen, tot) ==
    pageLen < FullPage \/ NumGeq(allLen, tot)

\* start += page.length
NextStart(st, pageLen) == st + pageLen

(***************************************************************************)
(* run: index building                                                      *)
(***************************************************************************)
\* id.split("/").pop() of typeof it.id === "string" ? it.id : ""
KeyOf(it) ==
    LET id == IF it.id.present THEN it.id.text ELSE <<>>
        slashes == {j \in 1..Len(id) : id[j] = "/"}
    IN  IF slashes = {} THEN id ELSE SubSeq(id, Max(slashes) + 1, Len(id))

\* the loop over cslItems: entries without a key are skipped; a later entry
\* of the same key overwrites the maps
BuildIndex(items) ==
    LET keys == [j \in 1..Len(items) |-> KeyOf(items[j])]
        pins == [j \in 1..Len(items) |-> pinnedFromNote(items[j].note)]
        pinIdx == {j \in 1..Len(items) :
                      keys[j] # <<>> /\ pins[j].found /\ pins[j].key # <<>>}
        typeIdx == {j \in 1..Len(items) :
                      /\ keys[j] # <<>>
                      /\ items[j].type.present
                      /\ items[j].type.text # <<>>}
    IN  [itemKeys  |-> SelectSeq(keys, LAMBDA k : k # <<>>),
         pinnedMap |-> [k \in {keys[j] : j \in pinIdx} |->
                           pins[Max({j \in pinIdx : keys[j] = k})].key],
         typeHints |-> [k \in {keys[j] : j \in typeIdx} |->
                           items[Max({j \in typeIdx : keys[j] = k})].type.text]]

(***************************************************************************)
(* run: the batch loop                                                      *)
(***************************************************************************)
\* faulty variant of the slice: its end is taken inclusive
Chunk_Inclusive(keys, at) ==
    SubSeq(keys, at + 1, IF at + ChunkSize + 1 < Len(keys)
                         THEN at + ChunkSize + 1 ELSE Len(keys))

\* itemKeys.slice(i, i + 50)
Chunk(keys, at) ==
    SubSeq(keys, at + 1, IF at + ChunkSize < Len(keys) THEN at + ChunkSize
                         ELSE Len(keys))

\* i += 50
NextBatch(at) == at + ChunkSize

\* if (part && part.trim()) { if (bib && !bib.endsWith("\n")) bib += "\n";
\*                            bib += part.trim() + "\n"; }
AppendPart(b, part) ==
    IF part # <<>> /\ Trim(part) # <<>>
    THEN (IF b # <<>> /\ ~EndsWithNewline(b) THEN b \o <<"\n">> ELSE b)
         \o Trim(part) \o <<"\n">>
    ELSE b

\* faulty variant of the loop test: the body runs at least once
MoreBatches_AtLeastOnce(at, keys) == at = 0 \/ at < Len(keys)

\* for (let i = 0; i < itemKeys.length; ...)
MoreBatches(at, keys) == at < Len(keys)

(***************************************************************************)
(* run: what the service answers a collection request with                  *)
(***************************************************************************)
Profiles == {"keyed", "keyless", "mixed"}
PageSizes == {0, 40, PageLimit}
Totals == {t \in 0..MaxTotal : t % 50 = 0 \/ t = MaxTotal}

\* "honest": the service holds n items, serves the (up to limit) items from
\*   the requested start and reports Total-Results = n;
\* "noheader": the same pages, without a Total-Results value;
\* "adversarial": any page of at most limit items from anywhere in a library
\*   (repeating or skipping items), any body shape, any total up to MaxTotal.
PageResponses(srv, st) ==
    LET last == IF st + PageLimit < srv.n THEN st + PageLimit ELSE srv.n
    IN  IF srv.mode = "honest"
        THEN {[body |-> Body(k, Items(st + 1, last)),
               header |-> Text(NatToStr(srv.n))] : k \in {"array", "wrapped"}}
        ELSE IF srv.mode = "noheader"
        THEN {[body |-> Body("array", Items(st + 1, last)),
               header |-> h] : h \in {Absent, Text(<<>>)}}
        ELSE {[body |-> Body(k, Items(off + 1, off + size)),
               header |-> Text(NatToStr(t))] :
                  k \in {"array", "other"}, size \in PageSizes,
                  off \in {0, st, st + PageLimit}, t \in Totals}

\* the library sizes tried: those around a multiple of the chunk size, and the
\* largest
LibrarySizes ==
    {n \in 0..MaxItems : n % ChunkSize \in {0, 1, ChunkSize - 1}} \cup {MaxItems}

Servers ==
    {[mode |-> m, n |-> n, profile |-> p] :
        m \in {"honest", "noheader"}, n \in LibrarySizes, p \in Profiles}
    \cup {[mode |-> "adversarial", n |-> 0, profile |-> "keyless"]}

(***************************************************************************)
(* run: the actions, one per resumption                                     *)
(***************************************************************************)
\* run up to its first await: the first collection request is in flight
Init ==
    /\ server \in Servers
    /\ pc = "page_wait"
    /\ start = 0
    /\ all = <<>>
    /\ total = NaN
    /\ pageStarts = <<0>>
    /\ pageSizes = <<>>
    /\ itemKeys = <<>>
    /\ pinnedMap = EmptyMap
    /\ typeHints = EmptyMap
    /\ warned = FALSE
    /\ i = 0
    /\ batchReqs = <<>>
    /\ bib = <<>>
    /\ outFile = [written |-> FALSE, content |-> <<>>]
    /\ failed = "none"
    /\ errorAt = 0
    /\ input = <<>>
    /\ passes = <<>>

\* fetchAllParentsCSL returned: the index is built, the warning given, and the
\* batch loop entered; with no key the loop body never runs and run goes on to
\* the rewrite and to fs.mkdir
AfterPaging(nums) ==
    LET idx == BuildIndex(Entries(server.profile, nums))
    IN  /\ itemKeys' = idx.itemKeys
        /\ pinnedMap' = idx.pinnedMap
        /\ typeHints' = idx.typeHints
        /\ warned' = (Len(idx.itemKeys) = 0)
        /\ i' = 0
        /\ IF MoreBatches(0, idx.itemKeys)
           THEN /\ pc' = "bib_wait"
                /\ batchReqs' = <<Chunk(idx.itemKeys, 0)>>
                /\ bib' = <<>>
           ELSE /\ pc' = "mkdir_wait"
                /\ batchReqs' = <<>>
                /\ bib' = Rewrite(<<>>, idx.pinnedMap, idx.typeHints)

\* a collection page arrives with a success status
PageResponseOk ==
    /\ pc = "page_wait"
    /\ \E r \in PageResponses(server, start) :
          LET page == normalizeItems(r.body)
              tot == TotalOf(r.header, page)
              newAll == all \o page
          IN  /\ all' = newAll
              /\ total' = tot
              /\ pageSizes' = Append(pageSizes, Len(page))
              /\ IF ShouldBreak(Len(page), Len(newAll), tot)
                 THEN /\ AfterPaging(newAll)
                      /\ UNCHANGED <<start, pageStarts>>
                 ELSE /\ start' = NextStart(start, Len(page))
                      /\ pageStarts' = Append(pageStarts, start')
                      /\ UNCHANGED <<pc, itemKeys, pinnedMap, typeHints,
                                     warned, i, batchReqs, bib>>
    /\ UNCHANGED <<server, outFile, failed, errorAt, input, passes>>

\* faulty variant of the failure path: the request is issued again
FetchFailure_Retry ==
    /\ IF pc = "page_wait"
       THEN pageStarts' = Append(pageStarts, start) /\ batchReqs' = batchReqs
       ELSE batchReqs' = Append(batchReqs, Chunk(itemKeys, i))
            /\ pageStarts' = pageStarts
    /\ UNCHANGED <<server, pc, start, all, total, pageSizes, itemKeys,
                   pinnedMap, typeHints, warned, i, bib, outFile, failed,
                   input, passes>>

\* if (!res.ok) throw ...: nothing in fetchAllParentsCSL or in the batch loop
\* catches it, the catch of run calls core.setFailed
FetchFailure ==
    /\ pc' = "failed"
    /\ failed' = "http"
    /\ UNCHANGED <<server, start, all, total, pageStarts, pageSizes, itemKeys,
                   pinnedMap, typeHints, warned, i, batchReqs, bib, outFile,
                   input, passes>>

\* the number of requests issued so far
Issued == Len(pageStarts) + Len(batchReqs)

\* a collection page arrives with a non-success status
PageResponseFail ==
    /\ pc = "page_wait"
    /\ errorAt' = IF errorAt = 0 THEN Issued ELSE errorAt
    /\ FetchFailure

\* a bibliography batch arrives with a success status
BibResponseOk ==
    /\ pc = "bib_wait"
    /\ \E part \in BibBodies(batchReqs[Len(batchReqs)]) :
          LET b == AppendPart(bib, part)
          IN  /\ i' = NextBatch(i)
              /\ IF MoreBatches(i', itemKeys)
                 THEN /\ batchReqs' = Append(batchReqs, Chunk(itemKeys, i'))
                      /\ bib' = b
                      /\ pc' = pc
                 ELSE /\ batchReqs' = batchReqs
                      /\ bib' = Rewrite(b, pinnedMap, typeHints)
                      /\ pc' = "mkdir_wait"
    /\ UNCHANGED <<server, start, all, total, pageStarts, pageSizes, itemKeys,
                   pinnedMap, typeHints, warned, outFile, failed, errorAt,
                   input, passes>>

\* a bibliography batch arrives with a non-success status
BibResponseFail ==
    /\ pc = "bib_wait"
    /\ errorAt' = IF errorAt = 0 THEN Issued ELSE errorAt
    /\ FetchFailure

\* await fs.mkdir(...) returns
MkdirOk ==
    /\ pc = "mkdir_wait"
    /\ pc' = "write_wait"
    /\ UNCHANGED <<server, start, all, total, pageStarts, pageSizes, itemKeys,
                   pinnedMap, typeHints, warned, i, batchReqs, bib, outFile,
                   failed, errorAt, input, passes>>

\* await fs.writeFile(OUT_BIB_PATH, bib, "utf8") returns; the summary is logged
WriteOk ==
    /\ pc = "write_wait"
    /\ outFile' = [written |-> TRUE, content |-> bib]
    /\ pc' = "done"
    /\ UNCHANGED <<server, start, all, total, pageStarts, pageSizes, itemKeys,
                   pinnedMap, typeHints, warned, i, batchReqs, bib, failed,
                   errorAt, input, passes>>

\* fs.mkdir or fs.writeFile throws: the catch of run calls core.setFailed
FsFail ==
    /\ pc \in {"mkdir_wait", "write_wait"}
    /\ pc' = "failed"
    /\ failed' = "fs"
    /\ UNCHANGED <<server, start, all, total, pageStarts, pageSizes, itemKeys,
                   pinnedMap, typeHints, warned, i, batchReqs, bib, outFile,
                   errorAt, input, passes>>

Next ==
    \/ PageResponseOk
    \/ PageResponseFail
    \/ BibResponseOk
    \/ BibResponseFail
    \/ MkdirOk
    \/ WriteOk
    \/ FsFail

Spec == Init /\ [][Next]_vars

(***************************************************************************)
(* Properties of the run                                                    *)
(***************************************************************************)
CeilDiv(a, b) == (a + b - 1) \div b
AtLeastOne(x) == IF x < 1 THEN 1 ELSE x

RECURSIVE SumSeq(_)
SumSeq(q) == IF q = <<>> THEN 0 ELSE q[Len(q)] + SumSeq(SubSeq(q, 1, Len(q) - 1))

RECURSIVE Flatten(_)
Flatten(qs) == IF qs = <<>> THEN <<>> ELSE Head(qs) \o Flatten(Tail(qs))

\* every collection request issued was answered with a page and the loop was left
PagingDone == pc # "page_wait" /\ Len(pageSizes) = Len(pageStarts)

\* the batch loop was left without a failed request
BatchesDone ==
    PagingDone /\ (pc \in {"mkdir_wait", "write_wait", "done"} \/ failed = "fs")

\* C1: against a service that holds n items, serves the up to 100 items from
\* the requested start and reports Total-Results = n, the requests are issued
\* one at a time, their starts are 0, 100, 200, ... in that order, each start
\* is the sum of the sizes of the pages received before it, there are never
\* more than max(1, ceil(n/100)) of them, and when the fetch returns there are
\* exactly that many and `all` holds the n items in server order.
C1_HonestPagination ==
    server.mode = "honest" =>
        /\ \A j \in DOMAIN pageStarts :
              /\ pageStarts[j] = 100 * (j - 1)
              /\ pageStarts[j] = SumSeq(SubSeq(pageSizes, 1, j - 1))
        /\ Len(pageStarts) - Len(pageSizes) \in {0, 1}
        /\ (pc = "page_wait") = (Len(pageStarts) = Len(pageSizes) + 1 /\ errorAt = 0)
        /\ Len(pageStarts) <= AtLeastOne(CeilDiv(server.n, 100))
        /\ PagingDone =>
              /\ Len(pageStarts) = AtLeastOne(CeilDiv(server.n, 100))
              /\ all = Items(1, server.n)
              /\ server.n = 340 =>
                    /\ pageSizes = <<100, 100, 100, 40>>
                    /\ pageStarts = <<0, 100, 200, 300>>

\* a service of 340 items was fetched in pages of 100, 100, 100, 40
C1_Witness ==
    /\ server.mode = "honest"
    /\ server.n = 340
    /\ PagingDone
    /\ pageSizes = <<100, 100, 100, 40>>
    /\ Len(all) = 340

\* C2: once the items accumulated reach the Total-Results value reported with
\* the last page, no further collection request is issued, also when that
\* page was full; a service of 250 items is fetched with exactly three
\* requests and 250 items are returned.
C2_TotalStopsFetch ==
    /\ (pageSizes # <<>> /\ NumGeq(Len(all), total)) =>
          /\ Len(pageStarts) = Len(pageSizes)
          /\ pc # "page_wait"
    /\ (server.mode = "honest" /\ server.n = 250 /\ PagingDone) =>
          /\ pageSizes = <<100, 100, 50>>
          /\ pageStarts = <<0, 100, 200>>
          /\ Len(all) = 250

\* the fetch stopped after a full page because the total was reached
C2_Witness ==
    /\ PagingDone
    /\ pageSizes = <<100, 100>>
    /\ NumGeq(Len(all), total)
    /\ Len(pageStarts) = 2

\* C3: once a request was answered with a non-success status the run is in
\* its failure state, no request was issued after the failed one (no retry,
\* no later page or batch), and the output file was not written.
C3_FailureAborts ==
    errorAt # 0 =>
        /\ pc = "failed"
        /\ failed = "http"
        /\ Issued = errorAt
        /\ ~outFile.written

\* a later bibliography batch failed after an earlier one had delivered text
C3_Witness ==
    /\ errorAt # 0
    /\ Len(batchReqs) >= 2
    /\ bib # <<>>
    /\ ~outFile.written
    /\ pc = "failed"

\* C4: the bibliography requests are issued one after another; their keys,
\* concatenated in request order, are a prefix of itemKeys; every request
\* carries between 1 and 50 keys and only the last may carry fewer than 50;
\* when the loop was left their number is ceil(n/50) and the concatenation is
\* itemKeys itself.
C4_BatchesPartitionKeys ==
    /\ Flatten(batchReqs) = SubSeq(itemKeys, 1, Len(Flatten(batchReqs)))
    /\ \A j \in DOMAIN batchReqs :
          /\ Len(batchReqs[j]) \in 1..50
          /\ j < Len(batchReqs) => Len(batchReqs[j]) = 50
    /\ pc = "bib_wait" => i = 50 * (Len(batchReqs) - 1)
    /\ Len(batchReqs) <= CeilDiv(Len(itemKeys), 50)
    /\ BatchesDone =>
          /\ Len(batchReqs) = CeilDiv(Len(itemKeys), 50)
          /\ Flatten(batchReqs) = itemKeys

\* a key list with repeated keys was fetched in several batches, the last short
C4_Witness ==
    /\ pc = "done"
    /\ Len(batchReqs) >= 3
    /\ Len(batchReqs[Len(batchReqs)]) < 50
    /\ \E a, b \in DOMAIN itemKeys : a < b /\ itemKeys[a] = itemKeys[b]

\* C8: when index building yields no item key the warning is given, no
\* bibliography request is ever issued, the text to write is empty, the run
\* goes on to write the file and does not fail for the lack of items (only a
\* file system error can fail it); once it is done the file is written, empty.
\* The warning is given in no other case.
C8_EmptyResultIsNoFailure ==
    /\ (PagingDone /\ itemKeys = <<>>) =>
          /\ warned
          /\ batchReqs = <<>>
          /\ bib = <<>>
          /\ pc \in {"mkdir_wait", "write_wait", "done", "failed"}
          /\ pc = "failed" => failed = "fs"
          /\ pc = "done" => outFile = [written |-> TRUE, content |-> <<>>]
    /\ warned => (PagingDone /\ itemKeys = <<>>)

\* a collection whose entries all lack an item key ended in success
C8_Witness ==
    /\ pc = "done"
    /\ all # <<>>
    /\ itemKeys = <<>>
    /\ warned
    /\ batchReqs = <<>>
    /\ outFile = [written |-> TRUE, content |-> <<>>]

\* C9: without a Total-Results value the fetch goes on after every full page
\* and stops at the first short one: the n items are returned completely,
\* after floor(n/100) + 1 requests.
C9_NoHeaderFetchesAll ==
    (server.mode = "noheader" /\ PagingDone) =>
        /\ all = Items(1, server.n)
        /\ Len(pageStarts) = (server.n \div 100) + 1

\* the largest total the service of this run reports
TotalBound == IF server.mode = "honest" THEN server.n ELSE MaxTotal

\* C10: when every page carries a numeric Total-Results of at most T and at
\* most 100 items, whatever the pages hold, no more than max(1, ceil(T/100))
\* requests are issued and the requested start never decreases.
C10_PaginationTerminates ==
    server.mode # "noheader" =>
        /\ Len(pageStarts) <= AtLeastOne(CeilDiv(TotalBound, 100))
        /\ \A j \in 1..(Len(pageStarts) - 1) : pageStarts[j] <= pageStarts[j + 1]

\* a misreporting service was asked the largest number of pages, and served
\* the same items twice
C10_Witness ==
    /\ server.mode = "adversarial"
    /\ Len(pageStarts) = CeilDiv(MaxTotal, 100)
    /\ PagingDone
    /\ \E a, b \in DOMAIN all : a < b /\ all[a] = all[b]

(***************************************************************************)
(* The text pipeline alone: the four passes applied one by one to a raw     *)
(* text drawn from a bounded set of documents                               *)
(***************************************************************************)
\* longest generated field value
MaxLen == 4

\* an upper-case letter twice, a lower-case letter, a digit, a blank
ValueAlphabet == {"A", "B", "c", "1", " "}

GeneratedValues == UNION {[1..n -> ValueAlphabet] : n \in 0..MaxLen}

CuratedValues ==
    {<<"T", "h", "e", " ", "N", "A", "S", "A", " ", "P", "r", "o", "g", "r", "a", "m">>,
     <<"A", " ", "N", "e", "w", " ", "A", "p", "p", "r", "o", "a", "c", "h">>,
     <<"T", "h", "e", " ", "{", "N", "A", "S", "A", "}", " ", "P", "r", "o", "g", "r", "a", "m">>,
     <<"A", "n", " ", "H", "T", "M", "L", " ", "G", "u", "i", "d", "e">>,
     <<"P", "o", "l", "i", "c", "y", " ", "{", "C", "o", "n", "t", "r", "i", "b", "u", "t", "i", "o", "n", "}">>}

FieldNames ==
    {<<"t", "i", "t", "l", "e">>,
     <<"b", "o", "o", "k", "t", "i", "t", "l", "e">>,
     <<"s", "e", "r", "i", "e", "s">>,
     <<"n", "u", "m", "b", "e", "r">>,
     <<"a", "u", "t", "h", "o", "r">>,
     <<"s", "h", "o", "r", "t", "t", "i", "t", "l", "e">>,
     <<"s", "u", "b", "t", "i", "t", "l", "e">>,
     <<"o", "r", "g", "a", "n", "i", "z", "a", "t", "i", "o", "n">>,
     <<"j", "o", "u", "r", "n", "a", "l">>,
     <<"t", "y", "p", "e">>}

Key1 == <<"K", "1">>
Key2 == <<"K", "2">>
Pinned1 == <<"P", "i", "n", "n", "e", "d", "1">>

\* how the translator lays a record out
FieldText(name, value) ==
    name \o <<" ", "=", " ", "{">> \o value \o <<"}", ",", "\n", "}", "\n">>

RecordOf(type, key, name, value) ==
    <<"@">> \o type \o <<"{">> \o key \o <<",", "\n", " ", " ">>
    \o FieldText(name, value)

Render(records) ==
    Flatten([j \in DOMAIN records |->
                RecordOf(records[j].type, records[j].key,
                         records[j].name, records[j].value)])

\* a map over Key1, Key2; <<>> stands for no entry
MapOf(a, b) ==
    [k \in (IF a = <<>> THEN {} ELSE {Key1}) \cup (IF b = <<>> THEN {} ELSE {Key2})
        |-> IF k = Key1 THEN a ELSE b]

\* two records, every combination of entry types, item keys (equal ones too),
\* pinned keys (a pin may be the other entry's item key) and type hints
HeaderInputs ==
    {[records |-> <<[type |-> t1, key |-> k1, name |-> <<"t", "i", "t", "l", "e">>, value |-> <<"A", " ", "N", "A", "S", "A">>],
                    [type |-> t2, key |-> k2, name |-> <<"a", "u", "t", "h", "o", "r">>, value |-> <<"D", "o", "e">>]>>,
      pinnedMap |-> MapOf(p1, p2),
      typeHints |-> MapOf(h1, h2)] :
        t1 \in {<<"m", "i", "s", "c">>}, t2 \in {<<"m", "i", "s", "c">>, <<"a", "r", "t", "i", "c", "l", "e">>},
        k1 \in {Key1, Key2}, k2 \in {Key1, Key2},
        p1 \in {<<>>, Pinned1, Key2}, p2 \in {<<>>, Key1},
        h1 \in {<<>>, <<"w", "e", "b", "p", "a", "g", "e">>, <<"s", "o", "n", "g">>}, h2 \in {<<>>, <<"c", "h", "a", "p", "t", "e", "r">>}}

\* one record with one field, every field name and every value
FieldInputs ==
    {[records |-> <<[type |-> <<"w", "e", "b", "p", "a", "g", "e">>, key |-> Key1, name |-> nm, value |-> v]>>,
      pinnedMap |-> MapOf(Pinned1, <<>>),
      typeHints |-> MapOf(<<"w", "e", "b", "p", "a", "g", "e">>, <<>>)] :
        nm \in FieldNames, v \in GeneratedValues \cup CuratedValues}

RewriteInit ==
    /\ input \in HeaderInputs \cup FieldInputs
    /\ pinnedMap = input.pinnedMap
    /\ typeHints = input.typeHints
    /\ bib = Render(input.records)
    /\ passes = <<bib>>
    /\ pc = "keys"
    /\ server = [mode |-> "none", n |-> 0, profile |-> "keyed"]
    /\ start = 0
    /\ all = <<>>
    /\ total = NaN
    /\ pageStarts = <<>>
    /\ pageSizes = <<>>
    /\ itemKeys = <<>>
    /\ warned = FALSE
    /\ i = 0
    /\ batchReqs = <<>>
    /\ outFile = [written |-> FALSE, content |-> <<>>]
    /\ failed = "none"
    /\ errorAt = 0

PassFrame ==
    UNCHANGED <<server, start, all, total, pageStarts, pageSizes, itemKeys,
                pinnedMap, typeHints, warned, i, batchReqs, outFile, failed,
                errorAt, input>>

PassKeys ==
    /\ pc = "keys"
    /\ bib' = RewriteKeysAndTypes(bib, pinnedMap, typeHints)
    /\ passes' = Append(passes, bib')
    /\ pc' = "journal"
    /\ PassFrame

PassJournal ==
    /\ pc = "journal"
    /\ bib' = RenameJournal(bib)
    /\ passes' = Append(passes, bib')
    /\ pc' = "capitals"
    /\ PassFrame

PassCapitals ==
    /\ pc = "capitals"
    /\ bib' = protectCapitalsInFields(bib, defaultFields)
    /\ passes' = Append(passes, bib')
    /\ pc' = "type"
    /\ PassFrame

PassType ==
    /\ pc = "type"
    /\ bib' = cleanTypeField(bib)
    /\ passes' = Append(passes, bib')
    /\ pc' = "rewritten"
    /\ PassFrame

RewriteNext == PassKeys \/ PassJournal \/ PassCapitals \/ PassType

RewriteSpec == RewriteInit /\ [][RewriteNext]_vars

(***************************************************************************)
(* Properties of the text pipeline                                          *)
(***************************************************************************)
\* the passes compose to what run computes in one go
PipelineIsRewrite ==
    pc = "rewritten" => bib = Rewrite(passes[1], pinnedMap, typeHints)

\* the header a record is to get: the pinned key when there is one, the
\* mapped hint when there is a hint and the map knows it
ExpectedKey(r) ==
    IF r.key \in DOMAIN input.pinnedMap THEN input.pinnedMap[r.key] ELSE r.key

ExpectedType(r) ==
    IF r.key \in DOMAIN input.typeHints
       /\ input.typeHints[r.key] \in DOMAIN typeMap
    THEN typeMap[input.typeHints[r.key]]
    ELSE r.type

\* C5: after the key and type pass every record header carries the pinned key
\* of its item key when there is one and the item key otherwise, and the
\* mapped type when the item key has a hint the type map knows and the
\* emitted type otherwise; each header is rewritten once (a pinned value equal
\* to another item key is not looked up again); nothing else changes.
C5_HeadersRewritten ==
    Len(passes) >= 2 =>
        passes[2] = Flatten([j \in DOMAIN input.records |->
                                RecordOf(ExpectedType(input.records[j]),
                                         ExpectedKey(input.records[j]),
                                         input.records[j].name,
                                         input.records[j].value)])

\* two entries pinned to each other's item key, one with the hint "song", the
\* other with a mapped hint
C5_Witness ==
    /\ Len(passes) >= 2
    /\ Len(input.records) = 2
    /\ input.records[1].key = Key1
    /\ input.records[2].key = Key2
    /\ input.pinnedMap = MapOf(Key2, Key1)
    /\ input.typeHints = MapOf(<<"s", "o", "n", "g">>, <<"c", "h", "a", "p", "t", "e", "r">>)
    /\ passes[2] = RecordOf(<<"m", "i", "s", "c">>, Key2, <<"t", "i", "t", "l", "e">>, <<"A", " ", "N", "A", "S", "A">>)
                   \o RecordOf(<<"i", "n", "c", "o", "l", "l", "e", "c", "t", "i", "o", "n">>, Key1, <<"a", "u", "t", "h", "o", "r">>, <<"D", "o", "e">>)

\* the word (maximal run of word characters) around position j of v
WordFirst(v, j) == Min({a \in 1..j : \A k \in a..j : IsWordChar(v[k])})
WordLast(v, j) == Max({b \in j..Len(v) : \A k \in j..b : IsWordChar(v[k])})

\* position j lies in a word of two or more letters, all of them upper case
InAcronym(v, j) ==
    /\ IsWordChar(v[j])
    /\ WordLast(v, j) - WordFirst(v, j) >= 1
    /\ \A k \in WordFirst(v, j)..WordLast(v, j) : IsUpper(v[k])

\* the value with every such word in one extra pair of braces
ExpectedProtect(v) ==
    Flatten([j \in 1..Len(v) |->
                (IF InAcronym(v, j) /\ WordFirst(v, j) = j THEN <<"{", "{">> ELSE <<>>)
                \o <<v[j]>>
                \o (IF InAcronym(v, j) /\ WordLast(v, j) = j THEN <<"}", "}">> ELSE <<>>)])

BraceFree(v) == \A j \in 1..Len(v) : v[j] \notin {"{", "}"}

\* the one-field document, once the capitals pass has run
OneField == Len(input.records) = 1 /\ Len(passes) >= 4
TheField == input.records[1]

\* what precedes the field in the text the capitals pass was given
BeforeField ==
    SubSeq(passes[3], 1,
           Len(passes[3]) - Len(FieldText(TheField.name, TheField.value)))

\* C6: for a field named title, booktitle, series or number whose value holds
\* no brace, the capitals pass puts every whole word of two or more upper-case
\* letters in exactly one extra pair of braces and changes nothing else.
C6_AcronymsWrappedOnce ==
    (OneField /\ TheField.name \in Range(defaultFields) /\ BraceFree(TheField.value)) =>
        passes[4] = BeforeField
                    \o FieldText(TheField.name, ExpectedProtect(TheField.value))

\* the same, for title, series and number only
C6_ExceptBooktitle ==
    (OneField /\ TheField.name \in Range(defaultFields)
        /\ TheField.name # <<"b", "o", "o", "k", "t", "i", "t", "l", "e">> /\ BraceFree(TheField.value)) =>
        passes[4] = BeforeField
                    \o FieldText(TheField.name, ExpectedProtect(TheField.value))

\* C7: the capitals pass leaves a document unchanged, header included, when
\* its field is not named title, booktitle, series or number.
C7_OtherFieldsUntouched ==
    (OneField /\ TheField.name \notin Range(defaultFields)) =>
        passes[4] = passes[3]

\* the same, for the names that do not end in one of the four
C7_ExceptLongerNames ==
    (OneField /\ TheField.name \notin Range(defaultFields)
        /\ TheField.name \notin {<<"s", "h", "o", "r", "t", "t", "i", "t", "l", "e">>, <<"s", "u", "b", "t", "i", "t", "l", "e">>}) =>
        passes[4] = passes[3]

=============================================================================
